---- MODULE Spec2Model ----
(***************************************************************************)
(* B4UE: interpretation of the ingredient-analysis response and the        *)
(* health-impact aggregation of the FoodScan component                     *)
(* (src/app/components/FoodScan.tsx).                                      *)
(*                                                                         *)
(* Text is a sequence of units.  A unit is one character of the payload:   *)
(* a JSON punctuation mark, the double quote, a blank, a control           *)
(* character, or a run of letters/digits written as one word ("name",      *)
(* "very_bad", "null", "7").  A JSON string literal is therefore           *)
(* <<Q, w1, ..., wn, Q>>; backslash escapes are not part of the alphabet.  *)
(***************************************************************************)
EXTENDS Integers, Sequences, FiniteSets, TLC

VARIABLES
    scanResult,         \* useState<ScanResponse | null>
    healthAnalysis,     \* useState<HealthAnalysis | null>
    error,              \* useState<string | null>
    isAnalyzingHealth,  \* useState(false)
    pc,                 \* position of the handleConfirmIngredients call
    data,               \* the response body the pending call is about to handle
    calls,              \* number of confirm actions taken so far
    last,               \* what the most recent handleAnalysisResponse call did
    log,                \* per handleAnalysisResponse call: its argument and what it set
    editingIngredient,  \* useState<number | null>
    request,            \* body of the analyze-ingredients request in flight
    healthData,         \* Home: useState<HealthData | null>
    showHealthForm,     \* Home: useState(false)
    showFoodScan,       \* Home: useState(false)
    storage,            \* localStorage item 'healthData'
    formData,           \* HealthDataForm: useState<HealthData>, null while not mounted
    opened,             \* the localStorage item as it was when the form was last opened
    route,              \* the analyze-ingredients proxy's POST call (route.ts)
    confirms,           \* the handleConfirmIngredients calls issued, when they may overlap
    capturedImage,      \* useState<string | null>
    showConfirmation,   \* useState(false)
    showResults,        \* useState(false)
    stream,             \* useState<MediaStream | null>
    camera              \* getUserMedia calls pending, streams with live tracks, and the
                        \* mount effect's currentStream

homeVars == <<healthData, showHealthForm, showFoodScan, storage, formData, opened>>

screenVars == <<capturedImage, showConfirmation, showResults, stream, camera>>

otherVars == <<confirms, screenVars>>

callVars == <<healthAnalysis, error, isAnalyzingHealth, pc, data, calls, last, log, request>>

vars == <<scanResult, healthAnalysis, error, isAnalyzingHealth, pc, data, calls, last, log,
          editingIngredient, request, healthData, showHealthForm, showFoodScan, storage,
          formData, opened, route, confirms, capturedImage, showConfirmation, showResults, stream,
          camera>>

(***************************************************************************)
(* JavaScript values.                                                      *)
(***************************************************************************)
Undef == [t |-> "undef"]
Null == [t |-> "null"]
JNum(k) == [t |-> "num", k |-> k]
JStr(s) == [t |-> "str", s |-> s]
JArr(a) == [t |-> "arr", a |-> a]
JObj(o) == [t |-> "obj", o |-> o]
Msg(m) == [t |-> "msg", m |-> m]

Q == "\""

\* Characters of U+0000-U+001F and U+007F-U+009F that the alphabet holds.
C0Chars == {"NL", "CR", "TAB", "BEL"}
C1Chars == {"DEL", "NEL"}

(***************************************************************************)
(* JSON.parse on a unit sequence: recursive descent, as ECMA-404.          *)
(***************************************************************************)
IsWs(c) == c \in {" ", "TAB", "NL", "CR"}

Fail == [ok |-> FALSE, v |-> Undef, n |-> 0]
Ok(v, n) == [ok |-> TRUE, v |-> v, n |-> n]

RECURSIVE SkipWs(_, _)
SkipWs(s, i) == IF i <= Len(s) /\ IsWs(s[i]) THEN SkipWs(s, i + 1) ELSE i

\* Index of the quote closing the string literal whose content starts at i;
\* 0 when the text ends first or a raw control character is met.
RECURSIVE StrEnd(_, _)
StrEnd(s, i) ==
    IF i > Len(s) THEN 0
    ELSE IF s[i] = Q THEN i
    ELSE IF s[i] \in C0Chars THEN 0
    ELSE StrEnd(s, i + 1)

ParseString(s, i) ==
    LET j == StrEnd(s, i + 1)
    IN  IF j = 0 THEN Fail ELSE Ok(JStr(SubSeq(s, i + 1, j - 1)), j + 1)

RECURSIVE ParseValue(_, _)
RECURSIVE ParseElements(_, _, _)
RECURSIVE ParseMembers(_, _, _)

ParseValue(s, i0) ==
    LET i == SkipWs(s, i0)
    IN  IF i > Len(s) THEN Fail
        ELSE IF s[i] = Q THEN ParseString(s, i)
        ELSE IF s[i] = "null" THEN Ok(Null, i + 1)
        ELSE IF s[i] = "0" THEN Ok(JNum(0), i + 1)
        ELSE IF s[i] = "7" THEN Ok(JNum(7), i + 1)
        ELSE IF s[i] = "[" THEN
            LET j == SkipWs(s, i + 1)
            IN  IF j <= Len(s) /\ s[j] = "]" THEN Ok(JArr(<<>>), j + 1)
                ELSE ParseElements(s, j, <<>>)
        ELSE IF s[i] = "{" THEN
            LET j == SkipWs(s, i + 1)
            IN  IF j <= Len(s) /\ s[j] = "}" THEN Ok(JObj(<<>>), j + 1)
                ELSE ParseMembers(s, j, <<>>)
        ELSE Fail

ParseElements(s, i, acc) ==
    LET r == ParseValue(s, i)
    IN  IF ~r.ok THEN Fail
        ELSE LET k == SkipWs(s, r.n)
             IN  IF k > Len(s) THEN Fail
                 ELSE IF s[k] = "," THEN ParseElements(s, k + 1, Append(acc, r.v))
                 ELSE IF s[k] = "]" THEN Ok(JArr(Append(acc, r.v)), k + 1)
                 ELSE Fail

\* A repeated key keeps its last value.
ParseMembers(s, i0, acc) ==
    LET i == SkipWs(s, i0)
    IN  IF i > Len(s) \/ s[i] # Q THEN Fail
        ELSE LET ks == ParseString(s, i)
             IN  IF ~ks.ok THEN Fail
                 ELSE LET c == SkipWs(s, ks.n)
                      IN  IF c > Len(s) \/ s[c] # ":" THEN Fail
                          ELSE LET r == ParseValue(s, c + 1)
                               IN  IF ~r.ok THEN Fail
                                   ELSE LET k == SkipWs(s, r.n)
                                            acc2 == (ks.v.s :> r.v) @@ acc
                                        IN  IF k > Len(s) THEN Fail
                                            ELSE IF s[k] = "," THEN ParseMembers(s, k + 1, acc2)
                                            ELSE IF s[k] = "}" THEN Ok(JObj(acc2), k + 1)
                                            ELSE Fail

JSONparse(s) ==
    LET r == ParseValue(s, 1)
    IN  IF r.ok /\ SkipWs(s, r.n) = Len(s) + 1
        THEN [ok |-> TRUE, v |-> r.v]
        ELSE [ok |-> FALSE, v |-> Undef]

(***************************************************************************)
(* JavaScript semantics the handler relies on.                             *)
(***************************************************************************)
Nullish(v) == v.t \in {"undef", "null"}

\* ToBoolean
Truthy(v) ==
    CASE v.t = "undef" -> FALSE
      [] v.t = "null"  -> FALSE
      [] v.t = "num"   -> v.k # 0
      [] v.t = "str"   -> Len(v.s) > 0
      [] OTHER         -> TRUE

\* v.k for a v that is neither null nor undefined; absent properties read
\* as undefined.
Prop(v, k) == IF v.t = "obj" /\ k \in DOMAIN v.o THEN v.o[k] ELSE Undef

\* w.length > 0 for a w that is neither null nor undefined.
LengthPositive(w) ==
    CASE w.t = "arr" -> Len(w.a) > 0
      [] w.t = "str" -> Len(w.s) > 0
      [] w.t = "obj" -> LET l == Prop(w, <<"length">>)
                        IN  l.t = "num" /\ l.k > 0
      [] OTHER       -> FALSE

\* String(v), used when a value is a property key.
RECURSIVE ToStr(_)
RECURSIVE Join(_, _)
ToStr(v) ==
    CASE v.t = "str"   -> v.s
      [] v.t = "undef" -> <<"undefined">>
      [] v.t = "null"  -> <<"null">>
      [] v.t = "num"   -> IF v.k = 0 THEN <<"0">> ELSE <<"7">>
      [] v.t = "arr"   -> Join(v.a, 1)
      [] OTHER         -> <<"[object Object]">>
Join(a, i) ==
    IF i > Len(a) THEN <<>>
    ELSE (IF Nullish(a[i]) THEN <<>> ELSE ToStr(a[i]))
         \o (IF i < Len(a) THEN <<",">> \o Join(a, i + 1) ELSE <<>>)

(***************************************************************************)
(* FoodScan.tsx 239-242: the three replace calls on raw_analysis.          *)
(***************************************************************************)
Remove(s, chars) == SelectSeq(s, LAMBDA c : c \notin chars)

\* Mutant: the replace calls lack the g flag and delete one occurrence each.
RemoveFirst(s, chars) ==
    LET hits == {i \in 1..Len(s) : s[i] \in chars}
        first == CHOOSE i \in hits : \A j \in hits : i <= j
    IN  IF hits = {} THEN s ELSE SubSeq(s, 1, first - 1) \o SubSeq(s, first + 1, Len(s))

cleanedJsonFirstOnly(raw) ==
    RemoveFirst(RemoveFirst(RemoveFirst(raw, {"NL"}), {"CR"}), C0Chars \cup C1Chars)

\* Mutant: the character class of the third replace ends at U+001F.
cleanedJsonC0Only(raw) == Remove(Remove(Remove(raw, {"NL"}), {"CR"}), C0Chars)

cleanedJson(raw) == Remove(Remove(Remove(raw, {"NL"}), {"CR"}), C0Chars \cup C1Chars)

(***************************************************************************)
(* FoodScan.tsx 261: cleanedJson.match(/"ingredients":\s*\[([\s\S]*?)\]/)  *)
(* The leftmost start wins; the lazy body ends at the first "]" after the  *)
(* opening bracket.                                                        *)
(***************************************************************************)
RECURSIVE IndexFrom(_, _, _)
IndexFrom(s, c, i) ==
    IF i > Len(s) THEN 0 ELSE IF s[i] = c THEN i ELSE IndexFrom(s, c, i + 1)

OpenAt(s, p) == SkipWs(s, p + 4)

MatchAt(s, p) ==
    /\ p + 3 <= Len(s)
    /\ SubSeq(s, p, p + 3) = <<Q, "ingredients", Q, ":">>
    /\ OpenAt(s, p) <= Len(s)
    /\ s[OpenAt(s, p)] = "["
    /\ IndexFrom(s, "]", OpenAt(s, p) + 1) # 0

partialMatch(s) ==
    LET starts == {p \in 1..Len(s) : MatchAt(s, p)}
    IN  IF starts = {} THEN [found |-> FALSE, body |-> <<>>]
        ELSE LET p == CHOOSE x \in starts : \A y \in starts : x <= y
                 open == OpenAt(s, p)
             IN  [found |-> TRUE,
                  body |-> SubSeq(s, open + 1, IndexFrom(s, "]", open + 1) - 1)]

(***************************************************************************)
(* FoodScan.tsx 250-252: ingredients.some(i => i.classification ===        *)
(* 'very_bad' || i.warnings.length > 0).  "throw" is a TypeError.          *)
(***************************************************************************)
\* Mutant: the warnings of an ingredient are not looked at.
FlaggedIgnoringWarnings(i) ==
    IF Nullish(i) THEN "throw"
    ELSE LET c == Prop(i, <<"classification">>)
         IN  IF c.t = "str" /\ c.s = <<"very_bad">> THEN "true" ELSE "false"

Flagged(i) ==
    IF Nullish(i) THEN "throw"
    ELSE LET c == Prop(i, <<"classification">>)
             w == Prop(i, <<"warnings">>)
         IN  IF c.t = "str" /\ c.s = <<"very_bad">> THEN "true"
             ELSE IF Nullish(w) THEN "throw"
             ELSE IF LengthPositive(w) THEN "true"
             ELSE "false"

RECURSIVE SomeFrom(_, _)
SomeFrom(a, i) ==
    IF i > Len(a) THEN "false"
    ELSE LET r == Flagged(a[i])
         IN  IF r = "false" THEN SomeFrom(a, i + 1) ELSE r

some(ingredients) ==
    IF ingredients.t # "arr" THEN "throw" ELSE SomeFrom(ingredients.a, 1)

(***************************************************************************)
(* FoodScan.tsx 305-322: determineOverallImpact.                           *)
(***************************************************************************)
HighMsg == "High number of potentially harmful ingredients detected. Consider alternatives."
HealthyMsg == "Generally healthy composition with beneficial ingredients."
ModerateMsg == "Moderate nutritional value. Contains a mix of beneficial and less desirable ingredients."

\* 306-309: the reduce; acc[k] = (acc[k] || 0) + 1.
RECURSIVE reduceStats(_, _, _)
reduceStats(a, i, acc) ==
    IF i > Len(a) THEN acc
    ELSE LET k == ToStr(Prop(a[i], <<"classification">>))
             n == IF k \in DOMAIN acc THEN acc[k] ELSE 0
         IN  reduceStats(a, i + 1, (k :> (n + 1)) @@ acc)

\* stats.k || 0
statOr0(stats, k) == IF <<k>> \in DOMAIN stats THEN stats[<<k>>] ELSE 0

\* 311-321.  totalIngredients * 0.3 and * 0.5 are IEEE doubles; for the
\* integer counts compared here (n * 0.3 rounds to the exact integer when
\* 3n/10 is one, and every other case is at least 0.1 away) the comparisons
\* are the exact rational ones.
\* Mutant: the High rule compares with >= instead of >.
impactOfInclusive(stats, totalIngredients) ==
    LET badCount == statOr0(stats, "bad") + statOr0(stats, "very_bad")
        goodCount == statOr0(stats, "good") + statOr0(stats, "very_good")
    IN  IF 10 * badCount >= 3 * totalIngredients THEN HighMsg
        ELSE IF 2 * goodCount > totalIngredients THEN HealthyMsg
        ELSE ModerateMsg

\* Mutant: the Healthy rule is tried before the High rule.
impactOfGoodFirst(stats, totalIngredients) ==
    LET badCount == statOr0(stats, "bad") + statOr0(stats, "very_bad")
        goodCount == statOr0(stats, "good") + statOr0(stats, "very_good")
    IN  IF 2 * goodCount > totalIngredients THEN HealthyMsg
        ELSE IF 10 * badCount > 3 * totalIngredients THEN HighMsg
        ELSE ModerateMsg

impactOf(stats, totalIngredients) ==
    LET badCount == statOr0(stats, "bad") + statOr0(stats, "very_bad")
        goodCount == statOr0(stats, "good") + statOr0(stats, "very_good")
    IN  IF 10 * badCount > 3 * totalIngredients THEN HighMsg
        ELSE IF 2 * goodCount > totalIngredients THEN HealthyMsg
        ELSE ModerateMsg

\* Mutant: the reduce has no initial value, so it throws on an empty array.
determineOverallImpactUnseeded(ingredients) ==
    IF ingredients.t # "arr" \/ ingredients.a = <<>>
       \/ \E i \in 1..Len(ingredients.a) : Nullish(ingredients.a[i])
    THEN [threw |-> TRUE, msg |-> ""]
    ELSE [threw |-> FALSE,
          msg |-> impactOf(reduceStats(ingredients.a, 1, <<>>), Len(ingredients.a))]

determineOverallImpact(ingredients) ==
    IF ingredients.t # "arr" \/ \E i \in 1..Len(ingredients.a) : Nullish(ingredients.a[i])
    THEN [threw |-> TRUE, msg |-> ""]
    ELSE [threw |-> FALSE,
          msg |-> impactOf(reduceStats(ingredients.a, 1, <<>>), Len(ingredients.a))]

(***************************************************************************)
(* FoodScan.tsx 235-303: handleAnalysisResponse.                           *)
(* The operators below compute what one call does: whether it calls        *)
(* setHealthAnalysis and with what, whether it calls setError, which       *)
(* branch returned, whether the tier-1 JSON.parse returned (parsed1) and   *)
(* whether the inner catch ran the pattern match (tier2).                  *)
(***************************************************************************)
ProcessError == "Failed to process ingredient analysis. Please try again."

\* Mutant: the ingredients are added to those of the analysis already held.
BuildAnalysisAccumulating(ingredients, kept) ==
    LET flagged == some(ingredients)
        impact == determineOverallImpact(ingredients)
        held == IF healthAnalysis.t = "analysis" THEN healthAnalysis.ingredients.a ELSE <<>>
    IN  IF flagged = "throw" \/ impact.threw
        THEN [threw |-> TRUE, analysis |-> Null]
        ELSE [threw |-> FALSE,
              analysis |-> [t |-> "analysis",
                            ingredients |-> JArr(held \o kept.a),
                            summary |-> [safe_to_consume |-> (flagged = "false"),
                                         overall_impact |-> impact.msg]]]

\* The argument of setHealthAnalysis (247-255, 266-274, 285-293): the object
\* literal evaluates ingredients, then some(...), then determineOverallImpact.
BuildAnalysis(ingredients, kept) ==
    LET flagged == some(ingredients)
        impact == determineOverallImpact(ingredients)
    IN  IF flagged = "throw" \/ impact.threw
        THEN [threw |-> TRUE, analysis |-> Null]
        ELSE [threw |-> FALSE,
              analysis |-> [t |-> "analysis",
                            ingredients |-> kept,
                            summary |-> [safe_to_consume |-> (flagged = "false"),
                                         overall_impact |-> impact.msg]]]

Outcome(branch, analysis, parsed1, tier2) ==
    [branch |-> branch, set |-> (branch # "error"), analysis |-> analysis,
     err |-> (branch = "error"), parsed1 |-> parsed1, tier2 |-> tier2]

\* Mutant: a response without usable ingredients becomes an empty analysis.
directBranchFabricating(d, parsed1, tier2) ==
    LET ingredients == Prop(d, <<"ingredients">>)
        b == BuildAnalysis(ingredients, ingredients)
    IN  IF Truthy(ingredients) /\ ~b.threw
        THEN Outcome("direct", b.analysis, parsed1, tier2)
        ELSE Outcome("direct", BuildAnalysis(JArr(<<>>), JArr(<<>>)).analysis, parsed1, tier2)

\* Mutant: the neutral ingredients, which count for neither ratio, are left
\* out of the stored list.
directBranchDroppingNeutral(d, parsed1, tier2) ==
    LET ingredients == Prop(d, <<"ingredients">>)
        b == BuildAnalysis(ingredients, ingredients)
        kept == JArr(SelectSeq(ingredients.a,
                               LAMBDA i : Prop(i, <<"classification">>) # JStr(<<"neutral">>)))
    IN  IF Truthy(ingredients) /\ ~b.threw
        THEN Outcome("direct", [b.analysis EXCEPT !.ingredients = kept], parsed1, tier2)
        ELSE Outcome("error", Null, parsed1, tier2)

\* Mutant: without the throw of 298, a response with nothing usable ends the
\* call with neither setter called.
directBranchSilent(d, parsed1, tier2) ==
    LET ingredients == Prop(d, <<"ingredients">>)
        b == BuildAnalysis(ingredients, ingredients)
    IN  IF Truthy(ingredients) /\ ~b.threw
        THEN Outcome("direct", b.analysis, parsed1, tier2)
        ELSE Outcome("none", Null, parsed1, tier2)

\* 283-302
directBranch(d, parsed1, tier2) ==
    LET ingredients == Prop(d, <<"ingredients">>)
        b == BuildAnalysis(ingredients, ingredients)
    IN  IF Truthy(ingredients) /\ ~b.threw
        THEN Outcome("direct", b.analysis, parsed1, tier2)
        ELSE Outcome("error", Null, parsed1, tier2)

\* Mutant: when the captured body does not parse as a whole, the longest run
\* of leading entries that does parse is kept.
partialBranchSkipping(d, cleaned, parsed1) ==
    LET m == partialMatch(cleaned)
        whole == JSONparse(<<"[">> \o m.body \o <<"]">>)
        cuts == {k \in 1..Len(m.body) :
                    /\ k < Len(m.body) /\ m.body[k + 1] = ","
                    /\ JSONparse(<<"[">> \o SubSeq(m.body, 1, k) \o <<"]">>).ok}
        best == CHOOSE k \in cuts : \A j \in cuts : j <= k
        partialIngredients ==
            IF whole.ok \/ cuts = {} THEN whole
            ELSE JSONparse(<<"[">> \o SubSeq(m.body, 1, best) \o <<"]">>)
        b == BuildAnalysis(partialIngredients.v, partialIngredients.v)
    IN  IF m.found /\ partialIngredients.ok /\ ~b.threw
        THEN Outcome("tier2", b.analysis, parsed1, TRUE)
        ELSE directBranch(d, parsed1, TRUE)

\* 257-280: the inner catch
partialBranch(d, cleaned, parsed1) ==
    LET m == partialMatch(cleaned)
        partialIngredients == JSONparse(<<"[">> \o m.body \o <<"]">>)
        b == BuildAnalysis(partialIngredients.v, partialIngredients.v)
    IN  IF m.found /\ partialIngredients.ok /\ ~b.threw
        THEN Outcome("tier2", b.analysis, parsed1, TRUE)
        ELSE directBranch(d, parsed1, TRUE)

\* 238-256
fullBranch(d, raw) ==
    LET cleaned == cleanedJson(raw)
        parsedAnalysis == JSONparse(cleaned)
        ingredients == IF Nullish(parsedAnalysis.v) THEN Undef
                       ELSE Prop(parsedAnalysis.v, <<"ingredients">>)
        b == BuildAnalysis(ingredients,
                           IF Truthy(ingredients) THEN ingredients ELSE JArr(<<>>))
    IN  IF parsedAnalysis.ok /\ ~Nullish(parsedAnalysis.v) /\ ~b.threw
        THEN Outcome("tier1", b.analysis, TRUE, FALSE)
        ELSE partialBranch(d, cleaned, parsedAnalysis.ok)

\* The cleaned field is the value of cleanedJson (239-242) when the call
\* computed one.
handleAnalysisResponse(d) ==
    IF Nullish(d) THEN [cleaned |-> Undef] @@ Outcome("error", Null, FALSE, FALSE)
    ELSE LET raw == Prop(d, <<"raw_analysis">>)
         IN  IF ~Truthy(raw) THEN [cleaned |-> Undef] @@ directBranch(d, FALSE, FALSE)
             ELSE IF raw.t # "str"
                  THEN [cleaned |-> Undef] @@ Outcome("error", Null, FALSE, FALSE)
             ELSE [cleaned |-> JStr(cleanedJson(raw.s))] @@ fullBranch(d, raw.s)

(***************************************************************************)
(* Response bodies the upstream service can send.  Texts are written the   *)
(* way a JSON serializer writes them; the upstream may stop early          *)
(* (truncation) and may emit control characters.                           *)
(***************************************************************************)
Str(w) == <<Q, w, Q>>

RECURSIVE CommaFrom(_, _)
CommaFrom(parts, i) ==
    IF i > Len(parts) THEN <<>>
    ELSE parts[i] \o (IF i < Len(parts) THEN <<",">> \o CommaFrom(parts, i + 1) ELSE <<>>)

ArrText(parts) == <<"[">> \o CommaFrom(parts, 1) \o <<"]">>
ObjText(parts) == <<"{">> \o CommaFrom(parts, 1) \o <<"}">>
Field(k, v) == Str(k) \o <<":">> \o v

Classes == {"very_good", "good", "neutral", "bad", "very_bad"}

ImpactText ==
    ObjText(<<Field("metric", Str("sugar")), Field("effect", Str("raises")),
              Field("severity", Str("negative"))>>)

\* A complete AnalyzedIngredient.
FullEntry(n, c, impacts, warnings) ==
    ObjText(<<Field("name", Str(n)), Field("classification", Str(c)),
              Field("impacts", ArrText(impacts)), Field("warnings", ArrText(warnings)),
              Field("recommendations", ArrText(<<>>))>>)

\* An entry without impacts, warnings and recommendations.
BareEntry(n, c) == ObjText(<<Field("name", Str(n)), Field("classification", Str(c))>>)

\* An entry with a warnings member only.
WarnEntry(head, warnings) == ObjText(head \o <<Field("warnings", warnings)>>)

WellFormedEntries ==
    {FullEntry("a", c, <<>>, <<>>) : c \in Classes}
    \cup {FullEntry("a", "bad", <<>>, <<Str("w")>>),
          FullEntry("a", "good", <<ImpactText>>, <<Str("w")>>)}

OddEntries ==
    {BareEntry("b", "good"), BareEntry("b", "very_bad"),
     WarnEntry(<<Field("name", Str("b")), Field("classification", Str("bad"))>>, ArrText(<<>>)),
     WarnEntry(<<Field("name", Str("b")), Field("classification", Str("toxic"))>>, ArrText(<<>>)),
     WarnEntry(<<Field("classification", Str("good"))>>, ArrText(<<>>)),
     WarnEntry(<<Field("name", <<"null">>), Field("classification", Str("good"))>>, ArrText(<<>>)),
     WarnEntry(<<Field("name", Str("b")), Field("classification", Str("good"))>>, <<Q, Q>>),
     WarnEntry(<<Field("name", Str("b")), Field("classification", Str("good"))>>, Str("w")),
     <<"null">>}

EntryPool == WellFormedEntries \cup OddEntries

\* Entries of the documents that are cut short.
CutPool ==
    {FullEntry("a", "good", <<>>, <<>>), FullEntry("a", "bad", <<>>, <<Str("w")>>),
     BareEntry("b", "very_bad"),
     WarnEntry(<<Field("name", Str("b")), Field("classification", Str("good"))>>, <<Q, Q>>)}

UpTo2(S) == {<<>>} \cup {<<e>> : e \in S} \cup {<<e, f>> : e \in S, f \in S}

Doc(entries) == ObjText(<<Field("ingredients", ArrText(entries))>>)

\* The same document followed by a summary member, and with a blank after
\* the colon.
LongDoc(entries) ==
    <<"{">> \o Str("ingredients") \o <<":", " ">> \o ArrText(entries) \o <<",">>
    \o Field("summary", ObjText(<<Field("verdict", Str("ok"))>>)) \o <<"}">>

Prefixes(t) == {SubSeq(t, 1, k) : k \in 0..(Len(t) - 1)}

InsertAt(t, k, c) == SubSeq(t, 1, k) \o <<c>> \o SubSeq(t, k + 1, Len(t))

OddDocs ==
    {ObjText(<<>>), <<"null">>, <<"7">>, ArrText(<<>>),
     ObjText(<<Field("ingredients", <<"null">>)>>),
     ObjText(<<Field("ingredients", <<"7">>)>>),
     ObjText(<<Field("summary", ObjText(<<>>))>>),
     ObjText(<<Field("result", Doc(<<BareEntry("b", "very_bad")>>))>>),
     ObjText(<<Field("result", Doc(<<>>))>>),
     <<"ingredients">>}

DirtyDocs ==
    LET t == Doc(<<FullEntry("a", "good", <<>>, <<>>)>>)
    IN  {InsertAt(t, k, c) : k \in {0, 2, 5, Len(t)}, c \in C0Chars \cup C1Chars}

RawTexts ==
    {Doc(es) : es \in UpTo2(EntryPool)}
    \cup UNION {Prefixes(LongDoc(es)) \cup {LongDoc(es)} : es \in UpTo2(CutPool)}
    \cup UNION {Prefixes(Doc(es)) : es \in UpTo2({FullEntry("a", "good", <<>>, <<>>),
                                                  FullEntry("a", "bad", <<>>, <<Str("w")>>)})}
    \cup OddDocs \cup DirtyDocs

\* The value of an ingredients member that arrives already structured.
DirectValues ==
    {JSONparse(ArrText(es)).v : es \in UpTo2(EntryPool)}
    \cup {Null, JNum(7), JNum(0), JStr(<<"a">>), JStr(<<>>), JObj(<<>>)}

\* A document of two entries that stops before the closing bracket of its
\* array.
CutDoc ==
    LET t == Doc(<<BareEntry("b", "very_bad"), FullEntry("a", "good", <<>>, <<>>)>>)
    IN  SubSeq(t, 1, Len(t) - 2)

RawKey == <<"raw_analysis">>
IngKey == <<"ingredients">>

Payloads ==
    {JObj(RawKey :> JStr(t)) : t \in RawTexts}
    \cup {JObj(IngKey :> v) : v \in DirectValues}
    \cup {JObj((RawKey :> JStr(t)) @@ (IngKey :> v)) :
            t \in {Doc(<<BareEntry("b", "good")>>), Doc(<<BareEntry("b", "very_bad")>>),
                   CutDoc, <<"{">>, <<>>},
            v \in {JSONparse(ArrText(<<FullEntry("a", "good", <<>>, <<>>)>>)).v,
                   JArr(<<>>), Null}}
    \cup {JObj((RawKey :> r) @@ (IngKey :> JArr(<<>>))) : r \in {JNum(7), JNum(0), JArr(<<>>), Null}}
    \cup {Null, JObj(<<>>), JArr(<<>>), JStr(<<"a">>)}

\* The bodies used where several calls follow one another: some of every
\* outcome of the handler.
SessionPayloads ==
    {JObj(RawKey :> JStr(t)) :
        t \in {Doc(<<>>),
               Doc(<<FullEntry("a", "good", <<>>, <<>>)>>),
               Doc(<<FullEntry("a", "bad", <<>>, <<Str("w")>>),
                     FullEntry("a", "good", <<>>, <<>>)>>),
               Doc(<<BareEntry("b", "good")>>),
               Doc(<<BareEntry("b", "very_bad")>>),
               ObjText(<<>>),
               SubSeq(LongDoc(<<BareEntry("b", "very_bad")>>), 1, 27),
               SubSeq(LongDoc(<<>>), 1, 8),
               SubSeq(Doc(<<FullEntry("a", "good", <<>>, <<>>)>>), 1, 30),
               <<"{">>}}
    \cup {JObj(IngKey :> v) :
            v \in {JSONparse(ArrText(es)).v :
                     es \in {<<>>, <<FullEntry("a", "very_bad", <<>>, <<>>)>>,
                             <<FullEntry("a", "very_good", <<>>, <<>>)>>,
                             <<BareEntry("b", "good")>>}}
                  \cup {Null, JNum(7)}}
    \cup {JObj((RawKey :> JStr(<<"{">>)) @@ (IngKey :> JArr(<<>>))),
          JObj((RawKey :> JNum(7)) @@ (IngKey :> JArr(<<>>))),
          Null, JObj(<<>>)}

(***************************************************************************)
(* Structured bodies for the aggregation: every multiset of                *)
(* classifications of at most MaxIngredients complete ingredients.         *)
(***************************************************************************)
MaxIngredients == 10

Ingredient(c) ==
    JObj((<<"name">> :> JStr(<<"a">>)) @@ (<<"classification">> :> JStr(<<c>>))
         @@ (<<"impacts">> :> JArr(<<>>)) @@ (<<"warnings">> :> JArr(<<>>))
         @@ (<<"recommendations">> :> JArr(<<>>)))

Repeat(c, n) == [i \in 1..n |-> Ingredient(c)]

AggPayloads ==
    {JObj(IngKey :> JArr(Repeat("very_good", vg) \o Repeat("bad", b) \o Repeat("neutral", n)
                         \o Repeat("good", g) \o Repeat("very_bad", vb))) :
        <<vg, g, n, b, vb>> \in
            {c \in (0..MaxIngredients) \X (0..MaxIngredients) \X (0..MaxIngredients)
                   \X (0..MaxIngredients) \X (0..MaxIngredients) :
                c[1] + c[2] + c[3] + c[4] + c[5] <= MaxIngredients}}

(***************************************************************************)
(* Texts for the normalization: every string of at most MaxLen characters  *)
(* over control characters of both ranges and characters next to the       *)
(* ranges (U+0020, U+00A0) or far from them.                               *)
(***************************************************************************)
MaxLen == 3

TextChars == C0Chars \cup C1Chars \cup {" ", "NBSP", "a"}

Texts == UNION {[1..n -> TextChars] : n \in 0..MaxLen}

(***************************************************************************)
(* The component: a scan result, then confirm -> fetch -> json ->          *)
(* handleAnalysisResponse.  Spec follows the calls of                      *)
(* handleConfirmIngredients one after another; SpecCall, SpecAgg and       *)
(* SpecNorm start where one call has its response body in hand and run     *)
(* the handler on it.                                                      *)
(***************************************************************************)
MaxCalls == 2

ScanResponses ==
    {[type |-> "ingredient_list", confidence |-> "high",
      ingredients |-> <<[name |-> "a", amount |-> Null, unit |-> Null]>>]}

(***************************************************************************)
(* Home (src/app/types/health.ts 25-128) and the health profile.  A        *)
(* profile holds the dietary requirement and the report files; a File      *)
(* becomes {} in JSON.stringify and stays a plain object after JSON.parse. *)
(***************************************************************************)
DietaryOptions == {"", "Vegan"}

\* HealthDataForm.tsx 36-42: the profile of a form opened without one.
EmptyProfile == [dietaryRequirement |-> "", healthReports |-> <<>>]

\* JSON.parse(JSON.stringify(p))
Stringified(p) ==
    [dietaryRequirement |-> p.dietaryRequirement,
     healthReports |-> [i \in 1..Len(p.healthReports) |-> "{}"]]

\* The profile Home holds while FoodScan is shown, as saved earlier.
SavedProfile == [dietaryRequirement |-> "Vegan", healthReports |-> <<>>]

\* health.ts 120-125: FoodScan is rendered, over a Home that holds a profile.
HomeWithFoodScan ==
    /\ healthData = SavedProfile
    /\ showHealthForm = FALSE
    /\ showFoodScan = TRUE
    /\ storage = Stringified(SavedProfile)
    /\ formData = Null
    /\ opened = Null

\* health.ts 120: showFoodScan && healthData
FoodScanRendered == showFoodScan /\ healthData # Null

\* 211-214: JSON.stringify({health_data: healthData, ingredients: ...})
RequestBody ==
    [health_data |-> IF healthData = Null THEN Null ELSE Stringified(healthData),
     ingredients |-> scanResult.ingredients]

\* 146-147: canvas.toDataURL('image/jpeg')
imageDataUrl == [t |-> "str", s |-> <<"data:image/jpeg">>]

\* A camera stream.
Stream(id) == [t |-> "stream", id |-> id]

\* FoodScan is not mounted and no camera was asked for.
NoCamera == [currentStream |-> Null, pending |-> <<>>, live |-> {}, issued |-> 0]

NotMounted ==
    /\ capturedImage = Null
    /\ showConfirmation = FALSE
    /\ showResults = FALSE
    /\ stream = Null
    /\ camera = NoCamera

\* 139-155: the photo was captured from the stream of the mount effect, which
\* capturePhoto has stopped; the confirmation controls are shown (499).
PhotoConfirmation ==
    /\ capturedImage = imageDataUrl
    /\ showConfirmation = TRUE
    /\ showResults = FALSE
    /\ stream = Null
    /\ camera = [NoCamera EXCEPT !.currentStream = Stream(1), !.issued = 1]

\* 182-187: the scan of that photo was accepted; the list is shown (542).
ResultsShown ==
    /\ capturedImage = imageDataUrl
    /\ showConfirmation = FALSE
    /\ showResults = TRUE
    /\ stream = Null
    /\ camera = [NoCamera EXCEPT !.currentStream = Stream(1), !.issued = 1]

\* No handleConfirmIngredients call was issued.
OthersIdle == confirms = <<>>

\* route.ts: no POST call is running.
NoRequest == [pc |-> "none", body |-> Null, timeoutId |-> "unset", elapsed |-> 0,
              response |-> Null, sent |-> <<>>]

NoCall == [branch |-> "none", set |-> FALSE, analysis |-> Null, err |-> FALSE,
           parsed1 |-> FALSE, tier2 |-> FALSE, cleaned |-> Undef]

Init ==
    /\ scanResult = Null
    /\ healthAnalysis = Null
    /\ error = Null
    /\ isAnalyzingHealth = FALSE
    /\ pc = "idle"
    /\ data = Undef
    /\ calls = 0
    /\ last = NoCall
    /\ log = <<>>
    /\ editingIngredient = Null
    /\ request = Null
    /\ HomeWithFoodScan
    /\ route = NoRequest
    /\ OthersIdle
    /\ PhotoConfirmation

\* The state in which the first call has received the body d.
BodyInHand(d) ==
    /\ scanResult \in ScanResponses
    /\ healthAnalysis = Null
    /\ error = Null
    /\ isAnalyzingHealth = TRUE
    /\ pc = "json"
    /\ data = d
    /\ calls = 1
    /\ last = NoCall
    /\ log = <<>>
    /\ editingIngredient = Null
    /\ request = Null
    /\ HomeWithFoodScan
    /\ route = NoRequest
    /\ OthersIdle
    /\ ResultsShown

InitCall == \E d \in Payloads : BodyInHand(d)

InitAgg == \E d \in AggPayloads : BodyInHand(d)

InitNorm == \E t \in Texts : BodyInHand(JObj(RawKey :> JStr(t)))

\* 157-197, the path on which the scan response is accepted (182-187).
analyzeFoodImage ==
    /\ FoodScanRendered
    /\ showConfirmation /\ capturedImage # Null
    /\ pc = "idle"
    /\ \E r \in ScanResponses : scanResult' = r
    /\ showResults' = TRUE
    /\ showConfirmation' = FALSE
    /\ error' = Null
    /\ UNCHANGED <<healthAnalysis, isAnalyzingHealth, pc, data, calls, last, log>>
    /\ UNCHANGED <<editingIngredient, request, homeVars, route>>
    /\ UNCHANGED <<confirms, capturedImage, stream, camera>>

\* 199-215: up to the await of fetch.
handleConfirmIngredients ==
    /\ FoodScanRendered
    /\ scanResult # Null
    /\ pc = "idle"
    /\ calls < MaxCalls
    /\ isAnalyzingHealth' = TRUE
    /\ error' = Null
    /\ pc' = "fetch"
    /\ calls' = calls + 1
    /\ data' = Undef
    /\ last' = NoCall
    /\ request' = RequestBody
    /\ UNCHANGED <<scanResult, healthAnalysis, log, editingIngredient, homeVars, route, otherVars>>

FetchErrors ==
    {"Unauthorized: Invalid or missing authentication token",
     "Failed to analyze ingredients",
     "Failed to fetch"}

\* 217-222 and 227-232: the response is not ok, or fetch rejected.
fetchFails ==
    /\ pc = "fetch"
    /\ \E m \in FetchErrors : error' = Msg(m)
    /\ isAnalyzingHealth' = FALSE
    /\ pc' = "idle"
    /\ request' = Null
    /\ UNCHANGED <<scanResult, healthAnalysis, data, calls, last, log>>
    /\ UNCHANGED <<editingIngredient, homeVars, route, otherVars>>

\* A body that response.json() cannot parse.
BadBody == [t |-> "unparseable"]

\* 217, 224: the response is ok and its body is being read.
fetchOk ==
    /\ pc = "fetch"
    /\ \E d \in SessionPayloads \cup {BadBody} : data' = d
    /\ pc' = "json"
    /\ request' = Null
    /\ UNCHANGED <<scanResult, healthAnalysis, error, isAnalyzingHealth, calls, last, log>>
    /\ UNCHANGED <<editingIngredient, homeVars, route, otherVars>>

\* 224-232 with 235-303: response.json() resolved; handleAnalysisResponse(data).
jsonResolves ==
    /\ pc = "json"
    /\ data # BadBody
    /\ last' = handleAnalysisResponse(data)
    /\ log' = Append(log, [data |-> data, set |-> last'.set, analysis |-> last'.analysis])
    /\ healthAnalysis' = IF last'.set THEN last'.analysis ELSE healthAnalysis
    /\ error' = IF last'.err THEN Msg(ProcessError) ELSE error
    /\ isAnalyzingHealth' = FALSE
    /\ pc' = "idle"
    /\ UNCHANGED <<scanResult, data, calls, editingIngredient, request, homeVars, route, otherVars>>

\* 224, 227-232: response.json() rejected; the catch shows its message.
jsonFails ==
    /\ pc = "json"
    /\ data = BadBody
    /\ error' = Msg("Unexpected end of JSON input")
    /\ isAnalyzingHealth' = FALSE
    /\ pc' = "idle"
    /\ request' = Null
    /\ UNCHANGED <<scanResult, healthAnalysis, data, calls, last, log>>
    /\ UNCHANGED <<editingIngredient, homeVars, route, otherVars>>

(***************************************************************************)
(* FoodScan.tsx 367-398 and the ingredient rows of 568-630: editing the    *)
(* candidate list.  Positions are the indices of the code (from 0).  The   *)
(* row at editingIngredient shows the inputs and the done button, every    *)
(* other row the edit and remove buttons.                                  *)
(***************************************************************************)
MaxEntries == 3

Names == {"", "a"}
Amounts == {Null, JStr(<<"1">>)}
Units == {Null, JStr(<<"g">>)}

\* 373
BlankIngredient == [name |-> "", amount |-> Null, unit |-> Null]

\* The Partial<Ingredient> arguments of the three inputs (577, 585, 592).
Updates ==
    {[name |-> n] : n \in Names} \cup {[amount |-> a] : a \in Amounts}
    \cup {[unit |-> u] : u \in Units}

Rows == 0..(Len(scanResult.ingredients) - 1)

ListShown == FoodScanRendered /\ showResults /\ scanResult # Null

\* 369-376
addIngredient ==
    /\ ListShown
    /\ Len(scanResult.ingredients) < MaxEntries
    /\ scanResult' = [scanResult EXCEPT !.ingredients = Append(@, BlankIngredient)]
    /\ editingIngredient' = JNum(Len(scanResult.ingredients))
    /\ UNCHANGED <<callVars, homeVars, route, otherVars>>

\* Mutant: the entry is replaced by the updates over a blank entry.
updatedIngredientsFromBlank(ingredients, index, updates) ==
    [i \in 1..Len(ingredients) |->
        IF i = index + 1 THEN updates @@ BlankIngredient ELSE ingredients[i]]

\* 381-382: the copy with { ...updatedIngredients[index], ...updates }.
updatedIngredients(ingredients, index, updates) ==
    [i \in 1..Len(ingredients) |->
        IF i = index + 1 THEN updates @@ ingredients[i] ELSE ingredients[i]]

updateIngredientAt(index, updates) ==
    /\ ListShown
    /\ index \in Rows /\ editingIngredient = JNum(index)
    /\ scanResult' = [scanResult EXCEPT
                         !.ingredients = updatedIngredients(@, index, updates)]
    /\ UNCHANGED <<editingIngredient, callVars, homeVars, route, otherVars>>

\* 379-387, from the inputs of the row being edited.
updateIngredient ==
    \E index \in 0..(MaxEntries - 1), updates \in Updates : updateIngredientAt(index, updates)

\* 393: ingredients.filter((_, i) => i !== index)
filtered(ingredients, index) ==
    [i \in 1..(Len(ingredients) - 1) |->
        IF i <= index THEN ingredients[i] ELSE ingredients[i + 1]]

removeIngredientAt(index) ==
    /\ ListShown
    /\ index \in Rows /\ editingIngredient # JNum(index)
    /\ scanResult' = [scanResult EXCEPT !.ingredients = filtered(@, index)]
    /\ editingIngredient' = IF editingIngredient = JNum(index) THEN Null
                             ELSE editingIngredient
    /\ UNCHANGED <<callVars, homeVars, route, otherVars>>

\* 389-398, from the remove button of a row not being edited.
removeIngredient == \E index \in 0..(MaxEntries - 1) : removeIngredientAt(index)

\* 595 (done) and 615 (edit).
setEditingIngredient ==
    /\ ListShown
    /\ \/ editingIngredient \in {JNum(i) : i \in Rows} /\ editingIngredient' = Null
       \/ \E index \in Rows :
            editingIngredient # JNum(index) /\ editingIngredient' = JNum(index)
    /\ UNCHANGED <<scanResult, callVars, homeVars, route, otherVars>>

\* The scan result is shown and no analysis has been asked for.
InitEdit ==
    /\ scanResult \in ScanResponses
    /\ healthAnalysis = Null
    /\ error = Null
    /\ isAnalyzingHealth = FALSE
    /\ pc = "idle"
    /\ data = Undef
    /\ calls = 0
    /\ last = NoCall
    /\ log = <<>>
    /\ editingIngredient = Null
    /\ request = Null
    /\ HomeWithFoodScan
    /\ route = NoRequest
    /\ OthersIdle
    /\ ResultsShown

NextEdit ==
    \/ addIngredient
    \/ updateIngredient
    \/ removeIngredient
    \/ setEditingIngredient

SpecEdit == InitEdit /\ [][NextEdit]_vars

(***************************************************************************)
(* Home (health.ts 25-128) with HealthDataForm (HealthDataForm.tsx): the   *)
(* two cards, the form's edits of the dietary requirement and the report   *)
(* files, Save, Cancel, and the FoodScan dialog opened and closed.  Each   *)
(* dialog is an overlay over the whole page, so a card is clicked only     *)
(* while no dialog is shown.                                               *)
(***************************************************************************)
MaxReports == 1

(***************************************************************************)
(* The camera of FoodScan (FoodScan.tsx 58-155).  camera.pending holds the *)
(* getUserMedia calls not yet settled, each with the code that issued it   *)
(* and whether the component that issued it is still mounted;              *)
(* camera.live holds the streams whose tracks have not been stopped.       *)
(***************************************************************************)
MaxStreams == 2

\* 65, 79, 116: navigator.mediaDevices.getUserMedia(...) is called.
getUserMedia(origin) ==
    [camera EXCEPT !.pending = Append(@, [origin |-> origin, mounted |-> TRUE,
                                          id |-> camera.issued + 1]),
                   !.issued = @ + 1]

\* 101-105: the cleanup of the mount effect; the calls still pending will
\* settle in a component that is gone.
cleanup ==
    [camera EXCEPT !.live = IF camera.currentStream = Null THEN @
                            ELSE @ \ {camera.currentStream},
                   !.currentStream = Null,
                   !.pending = [i \in 1..Len(@) |-> [@[i] EXCEPT !.mounted = FALSE]]]

\* The state of a FoodScan that has just been mounted (45-56).
FoodScanMounted ==
    /\ scanResult = Null
    /\ healthAnalysis = Null
    /\ error = Null
    /\ isAnalyzingHealth = FALSE
    /\ editingIngredient = Null
    /\ pc = "idle"
    /\ data = Undef
    /\ last = NoCall
    /\ request = Null

\* HealthDataForm.tsx 53-58: the effect that runs after every change of the
\* form's healthData, and after the mount.
persisted(p) == Stringified([p EXCEPT !.healthReports = <<>>])

\* HealthDataForm.tsx 35-58: the form is mounted on initialData.
formMounts ==
    /\ showHealthForm' = TRUE
    /\ formData' = IF healthData # Null THEN healthData ELSE EmptyProfile
    /\ storage' = persisted(formData')
    /\ opened' = storage
    /\ UNCHANGED <<healthData, showFoodScan>>

\* health.ts 78: the Add Health Data card.
openHealthForm ==
    /\ ~showHealthForm /\ ~showFoodScan
    /\ formMounts
    /\ UNCHANGED <<scanResult, editingIngredient, callVars, route, otherVars>>

\* Mutant: the card opens FoodScan without looking at healthData.
handleFoodScanClickUnchecked ==
    /\ ~showHealthForm /\ ~showFoodScan
    /\ showFoodScan' = TRUE
    /\ UNCHANGED <<healthData, showHealthForm, storage, formData, opened>>
    /\ UNCHANGED <<scanResult, editingIngredient, callVars, route, otherVars>>

\* health.ts 43-49: the Scan Food card.
handleFoodScanClick ==
    /\ ~showHealthForm /\ ~showFoodScan
    /\ IF healthData = Null
       THEN formMounts /\ UNCHANGED camera
       ELSE /\ showFoodScan' = TRUE
            /\ camera.issued < MaxStreams
            /\ camera' = getUserMedia("mount")
            /\ UNCHANGED <<healthData, showHealthForm, storage, formData, opened>>
    /\ UNCHANGED <<scanResult, editingIngredient, callVars, route>>
    /\ UNCHANGED <<confirms, capturedImage, showConfirmation, showResults, stream>>

\* HealthDataForm.tsx 284, with the effect of 53-58.
setDietaryRequirement ==
    /\ showHealthForm
    /\ \E v \in DietaryOptions :
          /\ v # formData.dietaryRequirement
          /\ formData' = [formData EXCEPT !.dietaryRequirement = v]
    /\ storage' = persisted(formData')
    /\ UNCHANGED <<healthData, showHealthForm, showFoodScan, opened>>
    /\ UNCHANGED <<scanResult, editingIngredient, callVars, route, otherVars>>

\* HealthDataForm.tsx 197-203 (one file chosen), with the effect of 53-58.
handleFileUpload ==
    /\ showHealthForm
    /\ Len(formData.healthReports) < MaxReports
    /\ formData' = [formData EXCEPT !.healthReports = Append(@, "File")]
    /\ storage' = persisted(formData')
    /\ UNCHANGED <<healthData, showHealthForm, showFoodScan, opened>>
    /\ UNCHANGED <<scanResult, editingIngredient, callVars, route, otherVars>>

\* HealthDataForm.tsx 523-528, with the effect of 53-58.
removeReport ==
    /\ showHealthForm
    /\ \E index \in 0..(Len(formData.healthReports) - 1) :
          formData' = [formData EXCEPT !.healthReports = filtered(@, index)]
    /\ storage' = persisted(formData')
    /\ UNCHANGED <<healthData, showHealthForm, showFoodScan, opened>>
    /\ UNCHANGED <<scanResult, editingIngredient, callVars, route, otherVars>>

\* HealthDataForm.tsx 253-256 with health.ts 36-41 and 114.
handleSave ==
    /\ showHealthForm
    /\ healthData' = formData
    /\ storage' = Stringified(formData)
    /\ showHealthForm' = FALSE
    /\ formData' = Null
    /\ UNCHANGED <<showFoodScan, opened, scanResult, editingIngredient, callVars, route, otherVars>>

\* HealthDataForm.tsx 267 and 544 with health.ts 114: close button, Cancel.
closeHealthForm ==
    /\ showHealthForm
    /\ showHealthForm' = FALSE
    /\ formData' = Null
    /\ UNCHANGED <<healthData, showFoodScan, storage, opened>>
    /\ UNCHANGED <<scanResult, editingIngredient, callVars, route, otherVars>>

\* FoodScan.tsx 418 and 803 with health.ts 122: the dialog is unmounted; its
\* state is gone and a pending call no longer has any effect.
closeFoodScan ==
    /\ FoodScanRendered
    /\ showFoodScan' = FALSE
    /\ scanResult' = Null
    /\ healthAnalysis' = Null
    /\ error' = Null
    /\ isAnalyzingHealth' = FALSE
    /\ editingIngredient' = Null
    /\ pc' = "idle"
    /\ data' = Undef
    /\ last' = NoCall
    /\ request' = Null
    /\ capturedImage' = Null
    /\ showConfirmation' = FALSE
    /\ showResults' = FALSE
    /\ stream' = Null
    /\ camera' = cleanup
    /\ UNCHANGED <<calls, log, healthData, showHealthForm, storage, formData, opened, route, confirms>>

(***************************************************************************)
(* The screens of FoodScan: camera preview (460), photo confirmation       *)
(* (486, 499), ingredient list (542), health analysis (656).               *)
(***************************************************************************)
CameraError ==
    "Failed to access camera. Please make sure you have granted camera permissions."

\* 460: the camera preview block, which holds the capture button.
PreviewRendered ==
    FoodScanRendered /\ ~showConfirmation /\ ~showResults /\ capturedImage = Null

without(seq, i) == [j \in 1..(Len(seq) - 1) |-> IF j < i THEN seq[j] ELSE seq[j + 1]]

\* 65-88 and 116-127: a pending getUserMedia call resolves with a stream.
\* In a component that was unmounted setStream does nothing, and the
\* cleanup that reads currentStream has already run.
getUserMediaResolves(i) ==
    /\ i \in 1..Len(camera.pending)
    /\ camera' = [camera EXCEPT
                      !.pending = without(@, i),
                      !.live = @ \cup {Stream(camera.pending[i].id)},
                      !.currentStream =
                          IF camera.pending[i].mounted /\ camera.pending[i].origin # "retake"
                          THEN Stream(camera.pending[i].id) ELSE @]
    /\ stream' = IF camera.pending[i].mounted THEN Stream(camera.pending[i].id) ELSE stream
    /\ error' = IF camera.pending[i].mounted THEN Null ELSE error
    /\ UNCHANGED <<scanResult, healthAnalysis, isAnalyzingHealth, pc, data, calls, last, log>>
    /\ UNCHANGED <<editingIngredient, request, homeVars, route>>
    /\ UNCHANGED <<confirms, capturedImage, showConfirmation, showResults>>

\* 75-83: the first call of the mount effect rejects and any camera is asked
\* for; 89-93 and 128-132: that call, or the call of retakePhoto, rejects.
getUserMediaRejects(i) ==
    /\ i \in 1..Len(camera.pending)
    /\ IF camera.pending[i].origin = "mount"
       THEN /\ camera' = [camera EXCEPT !.pending[i].origin = "fallback"]
            /\ UNCHANGED error
       ELSE /\ camera' = [camera EXCEPT !.pending = without(@, i)]
            /\ error' = IF camera.pending[i].mounted THEN Msg(CameraError) ELSE error
    /\ UNCHANGED <<scanResult, healthAnalysis, isAnalyzingHealth, pc, data, calls, last, log>>
    /\ UNCHANGED <<editingIngredient, request, homeVars, route>>
    /\ UNCHANGED <<confirms, capturedImage, showConfirmation, showResults, stream>>

getUserMediaSettles ==
    \E i \in 1..MaxStreams : getUserMediaResolves(i) \/ getUserMediaRejects(i)

\* 139-155, from the capture button (470), disabled without a stream.
capturePhoto ==
    /\ PreviewRendered
    /\ stream # Null
    /\ capturedImage' = imageDataUrl
    /\ showConfirmation' = TRUE
    /\ camera' = [camera EXCEPT !.live = @ \ {stream}]
    /\ stream' = Null
    /\ UNCHANGED <<scanResult, editingIngredient, callVars, homeVars, route>>
    /\ UNCHANGED <<confirms, showResults>>

\* The blocks that hold a button calling retakePhoto: 499-505 (Retake),
\* 637-643 (Take Another Photo), 795-801 (Scan Another Food).
RetakeOffered ==
    /\ FoodScanRendered
    /\ \/ showConfirmation
       \/ showResults /\ scanResult # Null
       \/ healthAnalysis # Null

\* 109-137
retakePhoto ==
    /\ RetakeOffered
    /\ capturedImage' = Null
    /\ showConfirmation' = FALSE
    /\ error' = Null
    /\ IF stream = Null
       THEN camera.issued < MaxStreams /\ camera' = getUserMedia("retake")
       ELSE UNCHANGED camera
    /\ UNCHANGED <<scanResult, healthAnalysis, isAnalyzingHealth, pc, data, calls, last, log>>
    /\ UNCHANGED <<editingIngredient, request, homeVars, route>>
    /\ UNCHANGED <<confirms, showResults, stream>>

\* The page is loaded again: every component state is gone, Home reads the
\* stored item (health.ts 28-34), and a FoodScan that was shown is unmounted.
reload ==
    /\ showHealthForm \/ showFoodScan \/ healthData # storage
    /\ healthData' = storage
    /\ showHealthForm' = FALSE
    /\ showFoodScan' = FALSE
    /\ formData' = Null
    /\ scanResult' = Null
    /\ healthAnalysis' = Null
    /\ error' = Null
    /\ isAnalyzingHealth' = FALSE
    /\ editingIngredient' = Null
    /\ pc' = "idle"
    /\ data' = Undef
    /\ last' = NoCall
    /\ request' = Null
    /\ capturedImage' = Null
    /\ showConfirmation' = FALSE
    /\ showResults' = FALSE
    /\ stream' = Null
    /\ camera' = NoCamera
    /\ UNCHANGED <<calls, log, storage, opened, route, confirms>>

\* health.ts 26-34: Home as constructed, over what localStorage holds.
InitHome ==
    /\ storage \in {Null} \cup {Stringified([dietaryRequirement |-> v, healthReports |-> <<>>]) :
                                  v \in DietaryOptions}
    /\ healthData = storage
    /\ showHealthForm = FALSE
    /\ showFoodScan = FALSE
    /\ formData = Null
    /\ opened = Null
    /\ FoodScanMounted
    /\ calls = 0
    /\ log = <<>>
    /\ route = NoRequest
    /\ OthersIdle
    /\ NotMounted

NextHome ==
    \/ openHealthForm
    \/ handleFoodScanClick
    \/ setDietaryRequirement
    \/ handleFileUpload
    \/ removeReport
    \/ handleSave
    \/ closeHealthForm
    \/ closeFoodScan
    \/ reload
    \/ getUserMediaSettles
    \/ capturePhoto
    \/ analyzeFoodImage
    \/ updateIngredient
    \/ removeIngredient
    \/ setEditingIngredient
    \/ handleConfirmIngredients
    \/ fetchFails

SpecHome == InitHome /\ [][NextHome]_vars

(***************************************************************************)
(* The analyze-ingredients proxy (src/app/api/proxy/analyze-ingredients/   *)
(* route.ts), one POST call.  route.elapsed is the time in ms since the    *)
(* abort timer was set; it advances while the upstream fetch is pending.   *)
(***************************************************************************)
\* route.ts 11: setTimeout(() => controller.abort(), 60000)
AbortAfter == 60000

\* The timer of the route's other copy and of the food-scan and image-scan
\* proxies: setTimeout(() => controller.abort(), 55000)
AbortAfterElsewhere == 55000

\* Granularity of the clock.
TickMs == 5000

\* What request.json() finds.
IncomingBodies ==
    {BadBody} \cup
    {[health_data |-> Stringified(SavedProfile), ingredients |-> sr.ingredients] :
        sr \in ScanResponses}

\* What the upstream answers: a status and a body text that parses to a
\* value or does not.
UpstreamStatuses == {200, 201, 401, 404, 500, 503}

UpstreamBodies ==
    {BadBody, JObj(IngKey :> JArr(<<>>)), JObj(RawKey :> JStr(Doc(<<>>)))}

\* Response.ok
ok(status) == status \in 200..299

\* NextResponse.json(body, {status})
NextResponsejson(body, status) == [status |-> status, body |-> body]

\* route.ts 33-42: the catch block.
caught(name) ==
    IF name = "AbortError"
    THEN NextResponsejson("Request timed out. The ingredient analysis is taking longer than expected.", 504)
    ELSE NextResponsejson("Failed to analyze ingredients", 500)

\* route.ts 8-11: request.json() resolves; the timer is set, fetch is called.
POSTrequestJson ==
    /\ route.pc = "request.json"
    /\ route.body # BadBody
    /\ route' = [route EXCEPT !.pc = "fetch", !.timeoutId = "set", !.elapsed = 0]
    /\ UNCHANGED <<scanResult, editingIngredient, callVars, homeVars, otherVars>>

\* route.ts 8, 31-42: request.json() rejects.
POSTrequestJsonThrows ==
    /\ route.pc = "request.json"
    /\ route.body = BadBody
    /\ route' = [route EXCEPT !.pc = "done", !.sent = Append(@, caught("SyntaxError"))]
    /\ UNCHANGED <<scanResult, editingIngredient, callVars, homeVars, otherVars>>

\* Time passes while the fetch is pending and the timer has not run out.
POSTtick ==
    /\ route.pc = "fetch"
    /\ route.elapsed < AbortAfter
    /\ route' = [route EXCEPT !.elapsed = @ + TickMs]
    /\ UNCHANGED <<scanResult, editingIngredient, callVars, homeVars, otherVars>>

\* route.ts 11, 13-21, 31-38: the timer runs out, controller.abort() makes
\* the pending fetch reject with an AbortError.
POSTabort ==
    /\ route.pc = "fetch"
    /\ route.timeoutId = "set"
    /\ route.elapsed >= AbortAfter
    /\ route' = [route EXCEPT !.pc = "done", !.timeoutId = "fired",
                              !.sent = Append(@, caught("AbortError"))]
    /\ UNCHANGED <<scanResult, editingIngredient, callVars, homeVars, otherVars>>

\* route.ts 13-21, 31-42: the fetch rejects (network error).
POSTfetchThrows ==
    /\ route.pc = "fetch"
    /\ route.elapsed < AbortAfter
    /\ route' = [route EXCEPT !.pc = "done", !.sent = Append(@, caught("TypeError"))]
    /\ UNCHANGED <<scanResult, editingIngredient, callVars, homeVars, otherVars>>

\* route.ts 13-27: the fetch resolves; clearTimeout; a status that is not
\* ok throws.
POSTfetchResolves ==
    /\ route.pc = "fetch"
    /\ route.elapsed < AbortAfter
    /\ \E status \in UpstreamStatuses, body \in UpstreamBodies :
          route' = IF ok(status)
                   THEN [route EXCEPT !.pc = "response.json", !.timeoutId = "cleared",
                                      !.response = [status |-> status, body |-> body]]
                   ELSE [route EXCEPT !.pc = "done", !.timeoutId = "cleared",
                                      !.response = [status |-> status, body |-> body],
                                      !.sent = Append(@, caught("Error"))]
    /\ UNCHANGED <<scanResult, editingIngredient, callVars, homeVars, otherVars>>

\* route.ts 29-30: response.json() resolves.
POSTresponseJson ==
    /\ route.pc = "response.json"
    /\ route.response.body # BadBody
    /\ route' = [route EXCEPT !.pc = "done",
                              !.sent = Append(@, NextResponsejson(route.response.body, 200))]
    /\ UNCHANGED <<scanResult, editingIngredient, callVars, homeVars, otherVars>>

\* route.ts 29, 31-42: response.json() rejects.
POSTresponseJsonThrows ==
    /\ route.pc = "response.json"
    /\ route.response.body = BadBody
    /\ route' = [route EXCEPT !.pc = "done", !.sent = Append(@, caught("SyntaxError"))]
    /\ UNCHANGED <<scanResult, editingIngredient, callVars, homeVars, otherVars>>

\* A POST request has arrived.
InitProxy ==
    /\ scanResult = Null
    /\ healthAnalysis = Null
    /\ error = Null
    /\ isAnalyzingHealth = FALSE
    /\ pc = "idle"
    /\ data = Undef
    /\ calls = 0
    /\ last = NoCall
    /\ log = <<>>
    /\ editingIngredient = Null
    /\ request = Null
    /\ HomeWithFoodScan
    /\ \E body \in IncomingBodies :
          route = [NoRequest EXCEPT !.pc = "request.json", !.body = body]
    /\ OthersIdle
    /\ PhotoConfirmation

NextProxy ==
    \/ POSTrequestJson
    \/ POSTrequestJsonThrows
    \/ POSTtick
    \/ POSTabort
    \/ POSTfetchThrows
    \/ POSTfetchResolves
    \/ POSTresponseJson
    \/ POSTresponseJsonThrows

SpecProxy == InitProxy /\ [][NextProxy]_vars

(***************************************************************************)
(* The confirm call of FoodScan through the proxy: the request of          *)
(* FoodScan.tsx 206-215 is the route's incoming request, and what the      *)
(* route sends is the response of 217-224.                                 *)
(***************************************************************************)
Unauthorized == "Unauthorized: Invalid or missing authentication token"

\* FoodScan.tsx 206-215 with route.ts 7: the request reaches the route.
POSTarrives ==
    /\ pc = "fetch"
    /\ route = NoRequest
    /\ route' = [NoRequest EXCEPT !.pc = "request.json", !.body = request]
    /\ UNCHANGED <<scanResult, editingIngredient, callVars, homeVars, otherVars>>

\* FoodScan.tsx 217-232: the route's response reaches the client.
responseArrives ==
    /\ pc = "fetch"
    /\ route.pc = "done"
    /\ LET response == route.sent[1]
       IN  IF ok(response.status)
           THEN /\ data' = response.body
                /\ pc' = "json"
                /\ UNCHANGED <<error, isAnalyzingHealth>>
           ELSE /\ error' = Msg(IF response.status = 401 THEN Unauthorized
                                ELSE "Failed to analyze ingredients")
                /\ isAnalyzingHealth' = FALSE
                /\ pc' = "idle"
                /\ UNCHANGED data
    /\ request' = Null
    /\ route' = NoRequest
    /\ UNCHANGED <<scanResult, healthAnalysis, calls, last, log>>
    /\ UNCHANGED <<editingIngredient, homeVars, otherVars>>

\* The ingredient list is shown and no analysis has been asked for.
InitThrough == InitEdit

NextThrough ==
    \/ handleConfirmIngredients
    \/ POSTarrives
    \/ POSTrequestJson
    \/ POSTtick
    \/ POSTabort
    \/ POSTfetchThrows
    \/ POSTfetchResolves
    \/ POSTresponseJson
    \/ POSTresponseJsonThrows
    \/ responseArrives
    \/ jsonResolves

SpecThrough == InitThrough /\ [][NextThrough]_vars

\* Home holds a saved profile; FoodScan is not shown.
InitScreen ==
    /\ healthData = SavedProfile
    /\ storage = Stringified(SavedProfile)
    /\ showHealthForm = FALSE
    /\ showFoodScan = FALSE
    /\ formData = Null
    /\ opened = Null
    /\ FoodScanMounted
    /\ calls = 0
    /\ log = <<>>
    /\ route = NoRequest
    /\ OthersIdle
    /\ NotMounted

NextScreen ==
    \/ handleFoodScanClick
    \/ closeFoodScan
    \/ getUserMediaSettles
    \/ capturePhoto
    \/ retakePhoto
    \/ analyzeFoodImage
    \/ handleConfirmIngredients
    \/ fetchFails
    \/ fetchOk
    \/ jsonResolves

SpecScreen == InitScreen /\ [][NextScreen]_vars

(***************************************************************************)
(* Overlapping handleConfirmIngredients calls (FoodScan.tsx 199-233).  The *)
(* Confirm Ingredients button (644-649) is not disabled while a request is *)
(* in flight, so a second call can start before the first has finished.    *)
(* confirms holds the calls in the order they were issued.                 *)
(***************************************************************************)
\* Bodies the upstream answers with: they give different analyses.
OverlapPayloads ==
    {JObj(RawKey :> JStr(Doc(<<>>))),
     JObj(RawKey :> JStr(Doc(<<FullEntry("a", "very_bad", <<>>, <<>>)>>)))}

\* 199-215: a call starts, up to its await of fetch.
confirmIssued ==
    /\ ListShown
    /\ Len(confirms) < MaxCalls
    /\ isAnalyzingHealth' = TRUE
    /\ error' = Null
    /\ confirms' = Append(confirms,
                          [pc |-> "fetch", request |-> RequestBody, data |-> Undef,
                           outcome |-> NoCall,
                           overlaps |-> (\E j \in 1..Len(confirms) : confirms[j].pc # "done")])
    /\ UNCHANGED <<scanResult, healthAnalysis, pc, data, calls, last, log, request>>
    /\ UNCHANGED <<editingIngredient, homeVars, route, screenVars>>

\* 217, 224: the response to call i is ok and its body is being read.
confirmFetchOk(i) ==
    /\ confirms[i].pc = "fetch"
    /\ \E d \in OverlapPayloads :
          confirms' = [confirms EXCEPT ![i].pc = "json", ![i].data = d]
    /\ UNCHANGED <<scanResult, editingIngredient, callVars, homeVars, route, screenVars>>

\* 217-222, 227-232: the response to call i is not ok, or its fetch rejected.
confirmFetchFails(i) ==
    /\ confirms[i].pc = "fetch"
    /\ \E m \in FetchErrors : error' = Msg(m)
    /\ isAnalyzingHealth' = FALSE
    /\ confirms' = [confirms EXCEPT ![i].pc = "done"]
    /\ UNCHANGED <<scanResult, healthAnalysis, pc, data, calls, last, log, request>>
    /\ UNCHANGED <<editingIngredient, homeVars, route, screenVars>>

\* 224-232 with 235-303: call i runs handleAnalysisResponse on its body.
confirmJsonResolves(i) ==
    /\ confirms[i].pc = "json"
    /\ confirms' = [confirms EXCEPT ![i].pc = "done",
                                    ![i].outcome = handleAnalysisResponse(confirms[i].data)]
    /\ healthAnalysis' = IF confirms'[i].outcome.set THEN confirms'[i].outcome.analysis
                          ELSE healthAnalysis
    /\ error' = IF confirms'[i].outcome.err THEN Msg(ProcessError) ELSE error
    /\ isAnalyzingHealth' = FALSE
    /\ UNCHANGED <<scanResult, pc, data, calls, last, log, request>>
    /\ UNCHANGED <<editingIngredient, homeVars, route, screenVars>>

confirmProceeds ==
    \E i \in 1..Len(confirms) :
        confirmFetchOk(i) \/ confirmFetchFails(i) \/ confirmJsonResolves(i)

\* The ingredient list is shown with its first row being edited (615).
InitOverlap ==
    /\ scanResult \in ScanResponses
    /\ healthAnalysis = Null
    /\ error = Null
    /\ isAnalyzingHealth = FALSE
    /\ pc = "idle"
    /\ data = Undef
    /\ calls = 0
    /\ last = NoCall
    /\ log = <<>>
    /\ editingIngredient = JNum(0)
    /\ request = Null
    /\ HomeWithFoodScan
    /\ route = NoRequest
    /\ OthersIdle
    /\ ResultsShown

NextOverlap ==
    \/ confirmIssued
    \/ confirmProceeds
    \/ updateIngredient

SpecOverlap == InitOverlap /\ [][NextOverlap]_vars

Next ==
    \/ analyzeFoodImage
    \/ handleConfirmIngredients
    \/ fetchFails
    \/ fetchOk
    \/ jsonResolves
    \/ jsonFails

Spec == Init /\ [][Next]_vars

NextCall == jsonResolves

SpecCall == InitCall /\ [][NextCall]_vars

SpecAgg == InitAgg /\ [][NextCall]_vars

SpecNorm == InitNorm /\ [][NextCall]_vars

(***************************************************************************)
(* Vocabulary of the properties.                                           *)
(***************************************************************************)
\* handleAnalysisResponse has just run on data.
Handled == pc = "idle" /\ last.branch # "none"

HasAnalysis == healthAnalysis.t = "analysis"

Shown == healthAnalysis.ingredients.a

Has(i, k) == i.t = "obj" /\ <<k>> \in DOMAIN i.o

ClassOf(i) == IF Has(i, "classification") THEN i.o[<<"classification">>] ELSE Undef

IsClass(i, cs) == ClassOf(i).t = "str" /\ \E c \in cs : ClassOf(i).s = <<c>>

HasWarning(i) ==
    /\ Has(i, "warnings")
    /\ \/ i.o[<<"warnings">>].t = "arr" /\ i.o[<<"warnings">>].a # <<>>
       \/ i.o[<<"warnings">>].t = "str" /\ i.o[<<"warnings">>].s # <<>>

CountOf(a, cs) == Cardinality({i \in 1..Len(a) : IsClass(a[i], cs)})

RawOf(d) == IF d.t = "obj" /\ RawKey \in DOMAIN d.o THEN d.o[RawKey] ELSE Undef

IsRaw(t) == data = JObj(RawKey :> JStr(t))

\* C1: whenever a HealthAnalysis is held, safe_to_consume is true exactly
\* when no ingredient of it is very_bad and none has a non-empty warnings
\* sequence.
C1_SafeIffNoVeryBadNoWarning ==
    HasAnalysis =>
        (healthAnalysis.summary.safe_to_consume
            <=> ~\E i \in 1..Len(Shown) :
                    IsClass(Shown[i], {"very_bad"}) \/ HasWarning(Shown[i]))

\* One warning on a bad ingredient vetoes safety although the other
\* ingredient is good and nothing is very_bad.
C1_Witness ==
    /\ Handled /\ HasAnalysis
    /\ Len(Shown) = 2
    /\ IsClass(Shown[1], {"bad"}) /\ HasWarning(Shown[1])
    /\ IsClass(Shown[2], {"good"}) /\ ~HasWarning(Shown[2])
    /\ ~healthAnalysis.summary.safe_to_consume

\* What JSON.parse makes of the normalized raw_analysis of the body.
ParsedRaw == JSONparse(cleanedJson(RawOf(data).s))

\* Neither extraction tier returns ingredients from the raw text.
TiersFail(raw) ==
    LET c == cleanedJson(raw)
        p == JSONparse(c)
        m == partialMatch(c)
        q == JSONparse(<<"[">> \o m.body \o <<"]">>)
    IN  /\ ~p.ok \/ Nullish(p.v) \/ BuildAnalysis(Prop(p.v, IngKey), Null).threw
        /\ ~m.found \/ ~q.ok \/ BuildAnalysis(q.v, Null).threw

\* The body d offers no ingredients: it has no ingredients member and
\* either no raw_analysis or one on which both tiers fail.
NoPath(d) ==
    /\ d # BadBody
    /\ d.t = "obj" => IngKey \notin DOMAIN d.o
    /\ d.t = "obj" =>
         (RawKey \notin DOMAIN d.o \/ (RawOf(d).t = "str" /\ TiersFail(RawOf(d).s)))

\* C2: when the body has no ingredients member and either no raw_analysis
\* or a raw_analysis on which both tiers fail, the call sets the error
\* message and leaves healthAnalysis as it was.
C2_NoPathSetsErrorOnly ==
    [][(pc = "json" /\ NoPath(data))
         => (/\ error' = Msg(ProcessError)
             /\ healthAnalysis' = healthAnalysis
             /\ ~last'.set)]_vars

\* A second call whose raw_analysis fails both tiers: the error is shown
\* and the analysis of the first call is still the one held.
C2_Witness ==
    /\ Handled /\ NoPath(data) /\ RawOf(data).t = "str"
    /\ calls = 2 /\ HasAnalysis
    /\ error = Msg(ProcessError)

TruncatedDoc(e1, e2) ==
    <<"{">> \o Str("ingredients") \o <<":", "[">> \o e1 \o <<",">> \o e2

\* C3: a raw_analysis holding "ingredients": [ e1, e2 and then cut off, with
\* e1 and e2 complete AnalyzedIngredient objects, gives through tier 2 an
\* analysis whose ingredients are e1 and e2 in that order.
C3_TruncatedArrayYieldsLeadingEntries ==
    \A e1 \in WellFormedEntries, e2 \in WellFormedEntries :
        (Handled /\ IsRaw(TruncatedDoc(e1, e2)))
            => (/\ last.branch = "tier2"
                /\ HasAnalysis
                /\ Shown = <<JSONparse(e1).v, JSONparse(e2).v>>)

IsIngredientsDoc(v) == v.t = "obj" /\ IngKey \in DOMAIN v.o /\ v.o[IngKey].t = "arr"

\* C4: when the normalized raw_analysis is a JSON document with an
\* ingredients array, the analysis comes from the tier-1 branch and the
\* tier-2 pattern match is not run.
C4_ValidDocumentStaysInTier1 ==
    (Handled /\ RawOf(data).t = "str" /\ ParsedRaw.ok /\ IsIngredientsDoc(ParsedRaw.v))
        => (last.branch = "tier1" /\ ~last.tier2)

\* C5: when the normalized raw_analysis parses to a document without an
\* ingredients member, an analysis with no ingredients is set and no error.
C5_MissingFieldIsEmptySuccess ==
    (Handled /\ RawOf(data).t = "str" /\ ParsedRaw.ok
     /\ ParsedRaw.v.t = "obj" /\ IngKey \notin DOMAIN ParsedRaw.v.o)
        => (/\ last.branch = "tier1"
            /\ HasAnalysis /\ Shown = <<>>
            /\ error = Null)

\* C6: every ingredient of the analysis held has a non-null name and a
\* classification among the five of the enumeration.
C6_NameAndClassification ==
    HasAnalysis =>
        \A i \in 1..Len(Shown) :
            /\ Has(Shown[i], "name") /\ ~Nullish(Shown[i].o[<<"name">>])
            /\ IsClass(Shown[i], Classes)

IsArrayField(i, k) == Has(i, k) /\ i.o[<<k>>].t = "arr"

\* An ingredients document whose entries are named and classified and hold
\* each of impacts, warnings, recommendations as an array or not at all.
EntriesMayOmitSequences(v) ==
    /\ IsIngredientsDoc(v)
    /\ \A i \in 1..Len(v.o[IngKey].a) :
        LET e == v.o[IngKey].a[i]
        IN  /\ Has(e, "name") /\ e.o[<<"name">>].t = "str"
            /\ IsClass(e, Classes)
            /\ \A k \in {"impacts", "warnings", "recommendations"} :
                 Has(e, k) => IsArrayField(e, k)

\* C7: every ingredient of the analysis held has impacts, warnings and
\* recommendations that are sequences, and a document whose entries omit
\* them still gives an analysis.
C7_SequencesNeverMissing ==
    /\ HasAnalysis =>
         \A i \in 1..Len(Shown) :
            \A k \in {"impacts", "warnings", "recommendations"} : IsArrayField(Shown[i], k)
    /\ (Handled /\ RawOf(data).t = "str" /\ ParsedRaw.ok /\ EntriesMayOmitSequences(ParsedRaw.v))
         => HasAnalysis

Harmful(a) == CountOf(a, {"bad", "very_bad"})
Beneficial(a) == CountOf(a, {"good", "very_good"})

\* C8: for a non-empty ingredient sequence the High message is returned
\* exactly when bad + very_bad is strictly more than 0.3 of the total.
C8_HighIffOverThreeTenths ==
    (HasAnalysis /\ Len(Shown) > 0)
        => (healthAnalysis.summary.overall_impact = HighMsg
                <=> 10 * Harmful(Shown) > 3 * Len(Shown))

\* Three harmful ingredients of ten: the High rule does not fire.
C8_Witness ==
    /\ Handled /\ HasAnalysis
    /\ Len(Shown) = 10 /\ Harmful(Shown) = 3
    /\ healthAnalysis.summary.overall_impact # HighMsg

\* C9: first match wins: High when bad + very_bad is more than 0.3 of the
\* total, whatever the good count; otherwise Healthy exactly when good +
\* very_good is strictly more than half; otherwise Moderate.
C9_RulesInOrder ==
    HasAnalysis =>
        LET msg == healthAnalysis.summary.overall_impact
            high == 10 * Harmful(Shown) > 3 * Len(Shown)
            healthy == 2 * Beneficial(Shown) > Len(Shown)
        IN  /\ high => msg = HighMsg
            /\ (~high /\ healthy) => msg = HealthyMsg
            /\ (~high /\ ~healthy) => msg = ModerateMsg

\* Both thresholds exceeded (4 harmful and 6 beneficial of 10): High.
C9_Witness ==
    /\ Handled /\ HasAnalysis
    /\ Len(Shown) = 10 /\ Harmful(Shown) = 4 /\ Beneficial(Shown) = 6
    /\ healthAnalysis.summary.overall_impact = HighMsg

\* C10: an empty ingredient sequence gives an analysis whose overall impact
\* is a no-data result of its own, not one of the three ratio messages.
C10_EmptyHasNoDataResult ==
    (Handled /\ data = JObj(IngKey :> JArr(<<>>)))
        => (/\ HasAnalysis
            /\ healthAnalysis.summary.overall_impact \notin {HighMsg, HealthyMsg, ModerateMsg})

DirectOf(d) == IF d.t = "obj" /\ IngKey \in DOMAIN d.o THEN d.o[IngKey] ELSE Undef

\* e has the five members of the AnalyzedIngredient interface, well typed.
IsAnalyzedIngredient(e) ==
    /\ Has(e, "name") /\ e.o[<<"name">>].t = "str"
    /\ IsClass(e, Classes)
    /\ \A k \in {"impacts", "warnings", "recommendations"} : IsArrayField(e, k)

IsAnalyzedIngredients(v) ==
    v.t = "arr" /\ \A i \in 1..Len(v.a) : IsAnalyzedIngredient(v.a[i])

\* The ingredients the full parse of the normalized text reads, if any.
Tier1Ingredients(raw) ==
    LET p == JSONparse(cleanedJson(raw))
    IN  IF p.ok /\ IsIngredientsDoc(p.v) THEN p.v.o[IngKey] ELSE Undef

\* The ingredients the partial extraction reads when the full parse failed.
Tier2Ingredients(raw) ==
    LET c == cleanedJson(raw)
        m == partialMatch(c)
        q == JSONparse(<<"[">> \o m.body \o <<"]">>)
    IN  IF ~JSONparse(c).ok /\ m.found /\ q.ok THEN q.v ELSE Undef

\* C11: a raw_analysis string from which tier 1 or tier 2 reads an
\* ingredients array decides the analysis and the direct ingredients member
\* is ignored; a direct array of AnalyzedIngredient is used, as it is,
\* exactly when raw_analysis is absent or neither tier reads ingredients
\* from it.
C11_DispatchOrder ==
    (Handled /\ data.t = "obj" /\ RawOf(data).t \in {"str", "undef"})
        => LET raw == RawOf(data)
               t1 == IF raw.t = "str" THEN Tier1Ingredients(raw.s) ELSE Undef
               t2 == IF raw.t = "str" THEN Tier2Ingredients(raw.s) ELSE Undef
           IN  /\ t1.t = "arr"
                    => (last.branch = "tier1" /\ HasAnalysis /\ healthAnalysis.ingredients = t1)
               /\ t2.t = "arr"
                    => (last.branch = "tier2" /\ HasAnalysis /\ healthAnalysis.ingredients = t2)
               /\ IsAnalyzedIngredients(DirectOf(data))
                    => (last.branch = "direct" <=> (t1.t # "arr" /\ t2.t # "arr"))
               /\ last.branch = "direct" => (t1.t # "arr" /\ t2.t # "arr")
               /\ last.branch = "direct" => healthAnalysis.ingredients = DirectOf(data)

\* C12: a body without raw_analysis whose ingredients member is an array of
\* AnalyzedIngredient gives an analysis whose ingredients are that array:
\* same length, same order, every member of every entry unchanged.
C12_DirectArrayReproduced ==
    (Handled /\ data.t = "obj" /\ RawOf(data) = Undef /\ IsAnalyzedIngredients(DirectOf(data)))
        => (/\ last.branch = "direct"
            /\ HasAnalysis
            /\ Len(Shown) = Len(DirectOf(data).a)
            /\ \A i \in 1..Len(Shown) : Shown[i] = DirectOf(data).a[i])

\* A neutral entry followed by a bad one that carries a warning.
C12_Witness ==
    /\ Handled /\ RawOf(data) = Undef /\ IsAnalyzedIngredients(DirectOf(data))
    /\ HasAnalysis /\ Len(Shown) = 2
    /\ IsClass(Shown[1], {"neutral"}) /\ ~HasWarning(Shown[1])
    /\ IsClass(Shown[2], {"bad"}) /\ HasWarning(Shown[2])

\* The body captured by the pattern in the normalized raw_analysis of data.
Captured == partialMatch(cleanedJson(RawOf(data).s))

\* The tier-1 parse of the raw_analysis of data failed, the pattern matched
\* and the captured body in brackets is not a JSON array.
CapturedUnparseable ==
    /\ data.t = "obj" /\ RawOf(data).t = "str" /\ RawOf(data).s # <<>>
    /\ ~ParsedRaw.ok
    /\ Captured.found
    /\ ~JSONparse(<<"[">> \o Captured.body \o <<"]">>).ok

\* C13: when the captured body does not parse as one JSON array, tier 2
\* gives no ingredients at all: the call does not end in the tier-2 branch,
\* and an analysis, if one is set, holds the direct ingredients member.
C13_NoPerElementRecovery ==
    (Handled /\ CapturedUnparseable)
        => (/\ last.branch \in {"direct", "error"}
            /\ last.branch = "error" => (~HasAnalysis /\ error = Msg(ProcessError))
            /\ last.branch = "direct" => healthAnalysis.ingredients = DirectOf(data))

\* The captured body starts with a complete entry and a comma, and what
\* follows is cut short: the call ends with the error and no analysis.
C13_Witness ==
    /\ Handled /\ CapturedUnparseable
    /\ \E k \in 1..(Len(Captured.body) - 1) :
          /\ Captured.body[k + 1] = ","
          /\ JSONparse(SubSeq(Captured.body, 1, k)).ok
          /\ JSONparse(SubSeq(Captured.body, 1, k)).v.t = "obj"
    /\ last.branch = "error" /\ ~HasAnalysis

EmptyAnalysisSet(branch) ==
    /\ last.branch = branch
    /\ HasAnalysis /\ Shown = <<>>
    /\ error = Null

\* C14: an empty ingredients array is a success on every path: read by the
\* full parse, read by the partial extraction, or given as the direct
\* member when raw_analysis is absent or gave no ingredients; each sets an
\* analysis with zero ingredients and no error.
C14_EmptyArrayIsSuccess ==
    (Handled /\ data.t = "obj" /\ (RawOf(data).t = "str" \/ ~Truthy(RawOf(data))))
        => LET raw == RawOf(data)
               t1 == IF raw.t = "str" THEN Tier1Ingredients(raw.s) ELSE Undef
               t2 == IF raw.t = "str" THEN Tier2Ingredients(raw.s) ELSE Undef
           IN  /\ t1 = JArr(<<>>) => EmptyAnalysisSet("tier1")
               /\ t2 = JArr(<<>>) => EmptyAnalysisSet("tier2")
               /\ (DirectOf(data) = JArr(<<>>) /\ t1.t # "arr" /\ t2.t # "arr")
                    => EmptyAnalysisSet("direct")

\* A text cut after an empty ingredients array: tier 2 sets an analysis
\* with zero ingredients.
C14_Witness ==
    /\ Handled /\ RawOf(data).t = "str"
    /\ Tier2Ingredients(RawOf(data).s) = JArr(<<>>)
    /\ EmptyAnalysisSet("tier2")

\* The characters of U+0000-U+001F and U+007F-U+009F, newline and carriage
\* return among them.
ControlChars == {"NL", "CR", "TAB", "BEL", "DEL", "NEL"}

RECURSIVE WithoutControl(_)
WithoutControl(s) ==
    IF s = <<>> THEN <<>>
    ELSE (IF Head(s) \in ControlChars THEN <<>> ELSE <<Head(s)>>) \o WithoutControl(Tail(s))

\* C15: the normalized text holds no newline, carriage return or control
\* character, and is the input with exactly those characters deleted, the
\* others kept in their order.
C15_NormalizerDeletesControlOnly ==
    (Handled /\ last.cleaned.t = "str")
        => (/\ \A i \in 1..Len(last.cleaned.s) : last.cleaned.s[i] \notin ControlChars
            /\ last.cleaned.s = WithoutControl(RawOf(data).s))

\* U+0085 between two kept characters, the second being U+00A0.
C15_Witness ==
    /\ Handled
    /\ RawOf(data) = JStr(<<"a", "NEL", "NBSP">>)
    /\ last.cleaned = JStr(<<"a", "NBSP">>)

\* C16: normalizing the normalized text gives the normalized text again.
C16_NormalizerIdempotent ==
    (Handled /\ last.cleaned.t = "str")
        => cleanedJson(last.cleaned.s) = last.cleaned.s

\* A text with several newlines and a carriage return: one pass deletes
\* them all and a second pass has nothing left to delete.
C16_Witness ==
    /\ Handled
    /\ RawOf(data) = JStr(<<"NL", "CR", "NL">>)
    /\ last.cleaned = JStr(<<>>)
    /\ cleanedJson(last.cleaned.s) = <<>>

Ingredients == scanResult.ingredients

\* C18: addIngredient appends one blank entry; updateIngredient(i, u) gives
\* the entry at i the fields of u and leaves its other fields; removeIngredient(i)
\* deletes the entry at i; every other entry keeps its value and order, and
\* type and confidence stay.
C18_EditsByPosition ==
    [][/\ (addIngredient \/ updateIngredient \/ removeIngredient)
            => (/\ scanResult'.type = scanResult.type
                /\ scanResult'.confidence = scanResult.confidence)
       /\ addIngredient
            => (/\ Len(Ingredients') = Len(Ingredients) + 1
                /\ Ingredients'[Len(Ingredients')] = BlankIngredient
                /\ \A j \in 1..Len(Ingredients) : Ingredients'[j] = Ingredients[j])
       /\ \A index \in 0..(MaxEntries - 1), updates \in Updates :
            updateIngredientAt(index, updates)
                => (/\ Len(Ingredients') = Len(Ingredients)
                    /\ \A j \in 1..Len(Ingredients) :
                          j # index + 1 => Ingredients'[j] = Ingredients[j]
                    /\ \A f \in {"name", "amount", "unit"} :
                          Ingredients'[index + 1][f] =
                              IF f \in DOMAIN updates THEN updates[f]
                              ELSE Ingredients[index + 1][f])
       /\ \A index \in 0..(MaxEntries - 1) :
            removeIngredientAt(index)
                => (/\ Len(Ingredients') = Len(Ingredients) - 1
                    /\ \A j \in 1..Len(Ingredients') :
                          Ingredients'[j] = Ingredients[IF j <= index THEN j ELSE j + 1])
      ]_vars

\* Three entries, the first two different and the last one just added and
\* being edited.
C18_Witness ==
    /\ scanResult # Null
    /\ Len(Ingredients) = 3
    /\ Ingredients[1] # Ingredients[2] /\ Ingredients[2].amount # Null
    /\ Ingredients[3] = BlankIngredient
    /\ editingIngredient = JNum(2)

\* C19: FoodScan is open only while Home holds a profile, and every
\* analyze-ingredients request carries that profile, not null, with the
\* ingredient list as it stands when Confirm is clicked.
C19_RequestCarriesProfileAndList ==
    /\ [](showFoodScan => healthData # Null)
    /\ [][handleConfirmIngredients
            => (/\ request'.health_data # Null
                /\ request'.health_data = Stringified(healthData)
                /\ request'.ingredients = scanResult.ingredients)]_vars

\* A request in flight that carries the saved profile and an ingredient
\* edited after the scan.
C19_Witness ==
    /\ pc = "fetch"
    /\ request # Null /\ request.health_data = Stringified(healthData)
    /\ Len(request.ingredients) = 1
    /\ request.ingredients[1].name = "" /\ request.ingredients[1].amount # Null
    /\ request.ingredients = scanResult.ingredients

\* The answer the proxy owes a finished call when its abort timer runs for
\* limit ms: the upstream body with status 200 when the upstream answered
\* ok with a body that parses, 504 when the fetch was still pending after
\* limit ms, 500 in every other case.
Owed(limit) ==
    IF route.elapsed >= limit THEN 504
    ELSE IF /\ route.response # Null
            /\ ok(route.response.status)
            /\ route.response.body # BadBody THEN 200
    ELSE 500

ProxyAnswers(limit) ==
    /\ Len(route.sent) <= 1
    /\ route.pc = "done" =>
          /\ Len(route.sent) = 1
          /\ route.sent[1].status = Owed(limit)
          /\ route.sent[1].status = 200 => route.sent[1].body = route.response.body

\* C20: the proxy answers each request once: the upstream body when the
\* upstream answers ok, 504 when the fetch is still pending 55 seconds after
\* the timer was set, 500 for every other failure.
C20_ProxyAnswersWith55sTimer == ProxyAnswers(AbortAfterElsewhere)

\* C21: the profile persisted under 'healthData' holds no health reports:
\* whatever was edited, uploaded, saved or cancelled, its healthReports is
\* the empty list.
C21_PersistedReportsEmpty ==
    storage # Null => storage.healthReports = <<>>

\* C22: an analysis obtained through tier 2, the partial extraction from a
\* raw_analysis that is not valid JSON as a whole, never has
\* safe_to_consume = true.
C22_Tier2NeverSafe ==
    (last.branch = "tier2" /\ ~last.parsed1 /\ healthAnalysis # Null)
        => ~healthAnalysis.summary.safe_to_consume

\* C23: when the most recently completed attempt ended in an error, no
\* analysis is held: an earlier attempt's analysis is not left next to the
\* error of a later one.
C23_ErrorMeansNoAnalysis ==
    (pc = "idle" /\ calls > 0 /\ error # Null) => healthAnalysis = Null

\* C24: when two confirm calls overlap and both set an analysis, the
\* analysis held once both have finished is the one computed from the
\* response to the call issued later.
C24_LaterRequestWins ==
    (/\ Len(confirms) >= 2
     /\ \A i \in 1..Len(confirms) : confirms[i].pc = "done"
     /\ confirms[2].overlaps
     /\ \A i \in 1..Len(confirms) : confirms[i].outcome.set)
        => healthAnalysis = confirms[Len(confirms)].outcome.analysis

\* C25: editingIngredient is null or a position of the list, and removing
\* another row leaves the editor on the entry that was being edited, which
\* after the removal of an earlier row is one position further up.
C25_EditorStaysOnItsEntry ==
    /\ [](ListShown => (editingIngredient = Null \/ editingIngredient.k \in Rows))
    /\ [][\A index \in 0..(MaxEntries - 1) :
            (removeIngredientAt(index) /\ editingIngredient # Null)
                => editingIngredient' =
                       JNum(IF index < editingIngredient.k
                            THEN editingIngredient.k - 1 ELSE editingIngredient.k)]_vars

\* C26: after retakePhoto, from whichever screen, the camera preview with
\* the capture button is rendered: no captured image, no confirmation
\* controls, no ingredient list and no health analysis are shown.
C26_RetakeReturnsToPreview ==
    [][retakePhoto => (/\ capturedImage' = Null
                       /\ ~showConfirmation'
                       /\ ~showResults'
                       /\ healthAnalysis' = Null
                       /\ PreviewRendered')]_vars

\* C27: every camera stream acquired is stopped by capturePhoto or by the
\* unmount cleanup: once FoodScan is unmounted and no getUserMedia call is
\* pending, no stream has live tracks.
C27_NoStreamLeftLive ==
    (~showFoodScan /\ camera.pending = <<>>) => camera.live = {}

\* C28: leaving the health form through Cancel or the close button, without
\* Save, leaves the localStorage item 'healthData' exactly as it was before
\* the form was opened, whatever was edited in between; a user without a
\* stored profile still has none.
C28_CancelLeavesStorageAlone ==
    [][closeHealthForm => storage' = opened]_vars
\* C29: for every payload a call of handleAnalysisResponse ends in exactly one
\* of two ways: healthAnalysis is set to an analysis and the error is not
\* touched, or the error becomes 'Failed to process ingredient analysis.
\* Please try again.' and healthAnalysis is left as it was.
C29_OneOfTwoOutcomes ==
    [][jsonResolves =>
          \/ /\ last'.set /\ ~last'.err
             /\ healthAnalysis'.t = "analysis" /\ healthAnalysis' = last'.analysis
             /\ error' = error
          \/ /\ last'.err /\ ~last'.set
             /\ error' = Msg(ProcessError)
             /\ healthAnalysis' = healthAnalysis]_vars

\* A raw_analysis that is not a string, next to a usable ingredients array,
\* has ended in the error.
C29_Witness ==
    /\ Handled
    /\ data = JObj((RawKey :> JNum(7)) @@ (IngKey :> JArr(<<>>)))
    /\ error = Msg(ProcessError)
    /\ healthAnalysis = Null
\* C30: when the upstream API rejects an analyze-ingredients request with
\* HTTP 401, the user is shown 'Unauthorized: Invalid or missing
\* authentication token', not the generic failure message.
C30_Upstream401ShownAsUnauthorized ==
    [][(responseArrives /\ route.response # Null /\ route.response.status = 401)
          => error' = Msg(Unauthorized)]_vars
====
